---- MODULE Spec2Model ----
(***************************************************************************)
(* A model of the UNO round engine of src/src/model/round.ts (RoundImpl).  *)
(* The round is a state machine over hands, draw pile, discard pile, turn  *)
(* pointer, direction, enforced color and the UNO accusation window.       *)
(* Every public operation is one action; an operation that throws keeps    *)
(* whatever it had already written to the fields, as the code does.        *)
(***************************************************************************)
EXTENDS Integers, Sequences, FiniteSets, TLC

VARIABLES
    players,            \* RoundImpl.players
    dealer,             \* RoundImpl.dealer
    hands,              \* RoundImpl.hands, a function 0..playerCount-1 -> Seq(Card)
    drawPileCards,      \* RoundImpl.drawPileCards, front first
    discardPileCards,   \* RoundImpl.discardPileCards, top last
    direction,          \* 1 | -1
    currentPlayerIndex, \* number | undefined
    enforcedColor,      \* Color | undefined
    pendingUno,         \* { player, windowOpen } | undefined
    unoDeclared,        \* boolean[]
    ended,
    winnerIndex,        \* number | undefined
    cachedScore,        \* number | undefined
    listeners,          \* RoundImpl.listeners, in registration order
    notified,           \* what the handlers have seen, one entry per invocation
    last,               \* the most recent call: operation, arguments, outcome
    steps,              \* number of calls made so far
    valid,              \* no call made so far has failed
    setup               \* construction in progress: its input and position

vars == <<players, dealer, hands, drawPileCards, discardPileCards, direction,
          currentPlayerIndex, enforcedColor, pendingUno, unoDeclared, ended,
          winnerIndex, cachedScore, listeners, notified, last, steps, valid,
          setup>>

-----------------------------------------------------------------------------
(* Bounds of the model. *)

\* Longest call sequence explored from a freshly constructed round.
MaxSteps == 3

-----------------------------------------------------------------------------
(* Optional values: `undefined` is the empty sequence, a value v is <<v>>.  *)

None == <<>>
Some(v) == <<v>>
Get(o) == o[1]

\* No exception is pending.
NoError == "none"

\* The absent optional `color` argument / cleared enforcedColor.
NoColor == "undefined"

-----------------------------------------------------------------------------
(* Cards (the Card type of ./uno) and the colors of ./deck.                 *)

colors == {"RED", "YELLOW", "GREEN", "BLUE"}

Numbered(c, n) == [type |-> "NUMBERED", color |-> c, number |-> n]
Colored(t, c) == [type |-> t, color |-> c]
Wild == [type |-> "WILD"]
WildDraw == [type |-> "WILD DRAW"]

IsWild(card) == card.type = "WILD" \/ card.type = "WILD DRAW"
HasColor(card) == "color" \in DOMAIN card

\* canPlay of ./uno: wild variants always; otherwise a color match with the
\* effective color (enforced color if set, else the top card's color), or a
\* rank/type match with the top card.
canPlay(card, top, enforced) ==
    \/ IsWild(card)
    \/ /\ enforced # NoColor
       /\ card.color = enforced
    \/ /\ enforced = NoColor
       /\ HasColor(top)
       /\ card.color = top.color
    \/ /\ card.type = "NUMBERED"
       /\ top.type = "NUMBERED"
       /\ card.number = top.number
    \/ /\ card.type # "NUMBERED"
       /\ card.type = top.type

\* The remainder operator of the language: the sign follows the dividend.
Remainder(value, modulus) ==
    IF value >= 0 THEN value % modulus ELSE 0 - ((0 - value) % modulus)

mod(value, modulus) ==
    LET result == Remainder(value, modulus)
    IN  IF result >= 0 THEN result ELSE result + modulus

\* Mutant of cardPoints: SKIP, REVERSE and DRAW count 10.
cardPoints_ActionsTen(card) ==
    CASE card.type = "NUMBERED" -> card.number
      [] card.type \in {"SKIP", "REVERSE", "DRAW"} -> 10
      [] card.type \in {"WILD", "WILD DRAW"} -> 50
      [] OTHER -> 0

cardPoints(card) ==
    CASE card.type = "NUMBERED" -> card.number
      [] card.type \in {"SKIP", "REVERSE", "DRAW"} -> 20
      [] card.type \in {"WILD", "WILD DRAW"} -> 50
      [] OTHER -> 0

RECURSIVE SumPoints(_)
SumPoints(hand) ==
    IF hand = <<>> THEN 0 ELSE cardPoints(Head(hand)) + SumPoints(Tail(hand))

-----------------------------------------------------------------------------
(* The shuffler is injected.  The model draws it from three in-place        *)
(* permutations: identity, reversal and rotation by one.                    *)

Shufflers == {"identity", "reverse", "rotate"}

ReverseSeq(s) == [i \in 1..Len(s) |-> s[Len(s) + 1 - i]]
RotateSeq(s) == IF s = <<>> THEN s ELSE Append(Tail(s), Head(s))

shuffler(sh, cards) ==
    CASE sh = "identity" -> cards
      [] sh = "reverse" -> ReverseSeq(cards)
      [] sh = "rotate" -> RotateSeq(cards)

-----------------------------------------------------------------------------
(* The fields of `this` as one record, with the pending exception (err),   *)
(* the value returned (ret) and whether the call refilled the draw pile.   *)

This ==
    [players |-> players, dealer |-> dealer, hands |-> hands,
     drawPileCards |-> drawPileCards, discardPileCards |-> discardPileCards,
     direction |-> direction, currentPlayerIndex |-> currentPlayerIndex,
     enforcedColor |-> enforcedColor, pendingUno |-> pendingUno,
     unoDeclared |-> unoDeclared, ended |-> ended, winnerIndex |-> winnerIndex,
     cachedScore |-> cachedScore, listeners |-> listeners,
     notified |-> notified, err |-> NoError, ret |-> None, refilled |-> FALSE]

playerCount(s) == Len(s.players)

Throw(s, message) == [s EXCEPT !.err = message]
Return(s, value) == [s EXCEPT !.ret = Some(value)]

\* Sequencing: the rest of a method runs only if nothing was thrown.
Then(s, F(_)) == IF s.err # NoError THEN s ELSE F(s)

topCard(s) == s.discardPileCards[Len(s.discardPileCards)]

ensureIndexFails(index, count) == index < 0 \/ index >= count

-----------------------------------------------------------------------------
(* Private methods of RoundImpl.                                           *)

ensureActiveRound(s) ==
    IF s.ended THEN Throw(s, "Round has finished") ELSE s

ensureCurrentPlayer(s) ==
    IF s.currentPlayerIndex = None
    THEN Throw(s, "No player currently in turn")
    ELSE s

ensureCardIndex(s, player, cardIndex) ==
    IF cardIndex < 0 \/ cardIndex >= Len(s.hands[player])
    THEN Throw(s, "Card index out of bounds")
    ELSE s

ensurePlayerIndex(s, index) ==
    IF ensureIndexFails(index, playerCount(s))
    THEN Throw(s, "player is out of bounds")
    ELSE s

\* Mutant of markActionBy: an action of another player leaves the window open.
markActionBy_KeepsWindow(s, player) == s

markActionBy(s, player) ==
    IF s.pendingUno # None /\ Get(s.pendingUno).player # player
    THEN [s EXCEPT !.pendingUno =
              Some([player |-> Get(s.pendingUno).player, windowOpen |-> FALSE])]
    ELSE s

\* Mutant of updateUnoStateFor: a declaration does not keep the window shut.
updateUnoStateFor_IgnoresDeclaration(s, player) ==
    LET handSize == Len(s.hands[player])
        mine(t) == t.pendingUno # None /\ Get(t.pendingUno).player = player
        s1 == IF handSize = 1
              THEN [s EXCEPT !.pendingUno =
                        Some([player |-> player, windowOpen |-> TRUE])]
              ELSE LET t == [s EXCEPT !.unoDeclared[player] = FALSE]
                   IN  IF mine(t) THEN [t EXCEPT !.pendingUno = None] ELSE t
    IN  IF s1.pendingUno # None
           /\ Len(s1.hands[Get(s1.pendingUno).player]) # 1
        THEN [s1 EXCEPT !.pendingUno = None]
        ELSE s1

updateUnoStateFor(s, player) ==
    LET handSize == Len(s.hands[player])
        mine(t) == t.pendingUno # None /\ Get(t.pendingUno).player = player
        s1 == IF handSize = 1
              THEN IF ~s.unoDeclared[player]
                   THEN [s EXCEPT !.pendingUno =
                             Some([player |-> player, windowOpen |-> TRUE])]
                   ELSE IF mine(s)
                        THEN [s EXCEPT !.pendingUno = None]
                        ELSE s
              ELSE LET t == [s EXCEPT !.unoDeclared[player] = FALSE]
                   IN  IF mine(t) THEN [t EXCEPT !.pendingUno = None] ELSE t
    IN  IF s1.pendingUno # None
           /\ Len(s1.hands[Get(s1.pendingUno).player]) # 1
        THEN [s1 EXCEPT !.pendingUno = None]
        ELSE s1

\* Mutant of refillDrawPile: the top card goes back into the draw pile too.
refillDrawPile_TakesTop(s, sh) ==
    IF Len(s.drawPileCards) > 0 THEN s
    ELSE IF Len(s.discardPileCards) <= 1
         THEN Throw(s, "Cannot replenish draw pile")
         ELSE LET top == s.discardPileCards[Len(s.discardPileCards)]
              IN  [s EXCEPT !.drawPileCards = shuffler(sh, s.discardPileCards),
                            !.discardPileCards = <<top>>,
                            !.refilled = TRUE]

refillDrawPile(s, sh) ==
    IF Len(s.drawPileCards) > 0 THEN s
    ELSE IF Len(s.discardPileCards) <= 1
         THEN Throw(s, "Cannot replenish draw pile")
         ELSE LET top == s.discardPileCards[Len(s.discardPileCards)]
                  rest == SubSeq(s.discardPileCards, 1,
                                 Len(s.discardPileCards) - 1)
              IN  [s EXCEPT !.drawPileCards = shuffler(sh, rest),
                            !.discardPileCards = <<top>>,
                            !.refilled = TRUE]

\* Mutant of takeFromDrawPile: the card taken stays in the draw pile.
takeFromDrawPile_LeavesCard(s, sh) ==
    LET s1 == IF Len(s.drawPileCards) = 0 THEN refillDrawPile(s, sh) ELSE s
    IN  Then(s1, LAMBDA t :
            IF t.drawPileCards = <<>>
            THEN Throw(t, "No cards available to draw")
            ELSE Return(t, Head(t.drawPileCards)))

\* Returns the card taken in ret.
takeFromDrawPile(s, sh) ==
    LET s1 == IF Len(s.drawPileCards) = 0 THEN refillDrawPile(s, sh) ELSE s
    IN  Then(s1, LAMBDA t :
            IF t.drawPileCards = <<>>
            THEN Throw(t, "No cards available to draw")
            ELSE Return([t EXCEPT !.drawPileCards = Tail(@)],
                        Head(t.drawPileCards)))

RECURSIVE drawCardsForPlayer(_, _, _, _)
drawCardsForPlayer(s, player, count, sh) ==
    IF count = 0 THEN s
    ELSE Then(takeFromDrawPile(s, sh), LAMBDA t :
            drawCardsForPlayer(
                [t EXCEPT !.hands[player] = Append(@, Get(t.ret)),
                          !.ret = None],
                player, count - 1, sh))

applyPenalty(s, player, cards, sh) ==
    Then(drawCardsForPlayer(s, player, cards, sh), LAMBDA t :
        updateUnoStateFor(t, player))

\* Mutant of advance: the direction of play is ignored.
advance_IgnoresDirection(s, stepCount) ==
    IF s.currentPlayerIndex = None THEN s
    ELSE LET next == Get(s.currentPlayerIndex) + stepCount
         IN  [s EXCEPT !.currentPlayerIndex = Some(mod(next, playerCount(s)))]

advance(s, stepCount) ==
    IF s.currentPlayerIndex = None THEN s
    ELSE LET next == Get(s.currentPlayerIndex) + stepCount * s.direction
         IN  [s EXCEPT !.currentPlayerIndex = Some(mod(next, playerCount(s)))]

\* Called only where ensureCurrentPlayer has passed.
nextIndexFromCurrent(s, offset) ==
    mod(Get(s.currentPlayerIndex) + offset * s.direction, playerCount(s))

computeScore(s, winner) ==
    LET RECURSIVE Total(_)
        Total(index) ==
            IF index = playerCount(s) THEN 0
            ELSE (IF index = winner THEN 0 ELSE SumPoints(s.hands[index]))
                 + Total(index + 1)
    IN  Total(0)

hasEnded(s) == s.ended

\* The value score() returns; the cache is filled on first use.
score(s) ==
    IF ~s.ended THEN None
    ELSE IF s.winnerIndex = None THEN None
    ELSE IF s.cachedScore = None
         THEN Some(computeScore(s, Get(s.winnerIndex)))
         ELSE s.cachedScore

\* A handler is called: it sees the winner passed to it and, through the
\* round, hasEnded() and score() as they are at that moment.
invoke(s, handler, winner) ==
    [s EXCEPT !.notified =
        Append(@, [handler |-> handler, winner |-> winner,
                   hasEnded |-> hasEnded(s), score |-> score(s)])]

RECURSIVE notifyListeners(_, _, _)
notifyListeners(s, winner, index) ==
    IF index > Len(s.listeners) THEN s
    ELSE notifyListeners(invoke(s, s.listeners[index], winner), winner,
                         index + 1)

\* Mutant of finishRound: the player in turn is not cleared.
finishRound_KeepsTurn(s, winner) ==
    IF s.ended THEN s
    ELSE LET t == [s EXCEPT !.ended = TRUE,
                            !.winnerIndex = Some(winner)]
         IN  notifyListeners(
                 [t EXCEPT !.cachedScore = Some(computeScore(t, winner))],
                 winner, 1)

\* Mutant of finishRound: the listeners are called before the round is marked
\* ended.
finishRound_NotifiesEarly(s, winner) ==
    IF s.ended THEN s
    ELSE LET n == notifyListeners(s, winner, 1)
             t == [n EXCEPT !.ended = TRUE,
                            !.winnerIndex = Some(winner),
                            !.currentPlayerIndex = None]
         IN  [t EXCEPT !.cachedScore = Some(computeScore(t, winner))]

finishRound(s, winner) ==
    IF s.ended THEN s
    ELSE LET t == [s EXCEPT !.ended = TRUE,
                            !.winnerIndex = Some(winner),
                            !.currentPlayerIndex = None]
         IN  notifyListeners(
                 [t EXCEPT !.cachedScore = Some(computeScore(t, winner))],
                 winner, 1)

-----------------------------------------------------------------------------
(* Public operations of RoundImpl, as functions from the fields before the *)
(* call to the fields after it (with err set when the call throws).        *)

\* RoundImpl.canPlay(cardIndex)
canPlayIndex(s, cardIndex) ==
    IF s.ended THEN FALSE
    ELSE IF s.currentPlayerIndex = None THEN FALSE
    ELSE LET hand == s.hands[Get(s.currentPlayerIndex)]
         IN  IF cardIndex < 0 \/ cardIndex >= Len(hand) THEN FALSE
             ELSE canPlay(hand[cardIndex + 1], topCard(s), s.enforcedColor)

RemoveAt(hand, cardIndex) ==
    SubSeq(hand, 1, cardIndex) \o SubSeq(hand, cardIndex + 2, Len(hand))

\* Lines 239-248: the card moves to the discard pile, then the color
\* argument is checked and the enforced color is written.
moveAndSetColor(s, current, cardIndex, color) ==
    LET card == s.hands[current][cardIndex + 1]
        moved == [s EXCEPT !.hands[current] = RemoveAt(@, cardIndex),
                           !.discardPileCards = Append(@, card)]
    IN  IF IsWild(card)
        THEN IF color = NoColor
             THEN Throw(moved, "Color must be specified when playing a wild card")
             ELSE IF color \notin colors
                  THEN Throw(moved, "Invalid color")
                  ELSE [moved EXCEPT !.enforcedColor = color]
        ELSE IF color # NoColor
             THEN Throw(moved, "Color can only be provided for wild cards")
             ELSE [moved EXCEPT !.enforcedColor = NoColor]

\* Lines 250-284: the step count of the card played.
advanceSteps(s, card) ==
    CASE card.type = "SKIP" -> 2
      [] card.type = "REVERSE" -> IF playerCount(s) = 2 THEN 2 ELSE 1
      [] card.type = "DRAW" -> 2
      [] card.type = "WILD" -> 1
      [] card.type = "WILD DRAW" -> 2
      [] OTHER -> 1

\* Mutant of cardEffect: a WILD DRAW deals the penalty of a DRAW.
cardEffect_WildDrawTwo(s, card, sh) ==
    CASE card.type = "REVERSE" -> [s EXCEPT !.direction = s.direction * (0 - 1)]
      [] card.type \in {"DRAW", "WILD DRAW"} ->
            LET victim == nextIndexFromCurrent(s, 1)
            IN  Then(applyPenalty(s, victim, 2, sh), LAMBDA t :
                    markActionBy(t, victim))
      [] OTHER -> s

\* Lines 252-284: the effect of the card played on direction and hands.
cardEffect(s, card, sh) ==
    CASE card.type = "REVERSE" -> [s EXCEPT !.direction = s.direction * (0 - 1)]
      [] card.type = "DRAW" ->
            LET victim == nextIndexFromCurrent(s, 1)
            IN  Then(applyPenalty(s, victim, 2, sh), LAMBDA t :
                    markActionBy(t, victim))
      [] card.type = "WILD DRAW" ->
            LET victim == nextIndexFromCurrent(s, 1)
            IN  Then(applyPenalty(s, victim, 4, sh), LAMBDA t :
                    markActionBy(t, victim))
      [] OTHER -> s

\* Lines 286-298.
settleTurn(s, current, card) ==
    LET u == updateUnoStateFor(s, current)
    IN  IF Len(u.hands[current]) = 0
        THEN Return(finishRound([u EXCEPT !.pendingUno = None], current), card)
        ELSE Return(IF ~u.ended THEN advance(u, advanceSteps(u, card)) ELSE u,
                    card)

play(s, cardIndex, color, sh) ==
    Then(ensureActiveRound(s), LAMBDA a :
    Then(ensureCurrentPlayer(a), LAMBDA b :
    LET current == Get(b.currentPlayerIndex) IN
    Then(ensureCardIndex(b, current, cardIndex), LAMBDA c :
    LET marked == markActionBy(c, current)
        card == marked.hands[current][cardIndex + 1]
    IN  IF ~canPlayIndex(marked, cardIndex)
        THEN Throw(marked, "Card cannot be played")
        ELSE Then(moveAndSetColor(marked, current, cardIndex, color), LAMBDA d :
             Then(cardEffect(d, card, sh), LAMBDA e :
             settleTurn(e, current, card))))))

\* Mutant of draw: the turn moves on whatever card was drawn.
draw_AlwaysAdvances(s, sh) ==
    Then(ensureActiveRound(s), LAMBDA a :
    Then(ensureCurrentPlayer(a), LAMBDA b :
    LET current == Get(b.currentPlayerIndex) IN
    Then(takeFromDrawPile(markActionBy(b, current), sh), LAMBDA t :
    LET card == Get(t.ret)
        u == updateUnoStateFor(
                 [t EXCEPT !.hands[current] = Append(@, card)], current)
    IN  Return(advance(u, 1), card))))

draw(s, sh) ==
    Then(ensureActiveRound(s), LAMBDA a :
    Then(ensureCurrentPlayer(a), LAMBDA b :
    LET current == Get(b.currentPlayerIndex) IN
    Then(takeFromDrawPile(markActionBy(b, current), sh), LAMBDA t :
    LET card == Get(t.ret)
        u == updateUnoStateFor(
                 [t EXCEPT !.hands[current] = Append(@, card)], current)
    IN  Return(IF ~canPlay(card, topCard(u), u.enforcedColor)
               THEN advance(u, 1)
               ELSE u,
               card))))

\* Mutant of catchUnoFailure: an expired window still counts.
catchUnoFailure_IgnoresExpiry(s, accuser, accused, sh) ==
    Then(ensurePlayerIndex(s, accuser), LAMBDA a :
    Then(ensurePlayerIndex(a, accused), LAMBDA b :
    IF b.pendingUno = None THEN Return(b, FALSE)
    ELSE IF Get(b.pendingUno).player # accused THEN Return(b, FALSE)
    ELSE IF b.unoDeclared[accused] THEN Return(b, FALSE)
    ELSE IF Len(b.hands[accused]) # 1 THEN Return(b, FALSE)
    ELSE Then(applyPenalty([b EXCEPT !.pendingUno = None], accused, 4, sh),
              LAMBDA t : Return([t EXCEPT !.unoDeclared[accused] = FALSE],
                                TRUE))))

catchUnoFailure(s, accuser, accused, sh) ==
    Then(ensurePlayerIndex(s, accuser), LAMBDA a :
    Then(ensurePlayerIndex(a, accused), LAMBDA b :
    IF b.pendingUno = None THEN Return(b, FALSE)
    ELSE IF Get(b.pendingUno).player # accused THEN Return(b, FALSE)
    ELSE IF ~Get(b.pendingUno).windowOpen THEN Return(b, FALSE)
    ELSE IF b.unoDeclared[accused] THEN Return(b, FALSE)
    ELSE IF Len(b.hands[accused]) # 1 THEN Return(b, FALSE)
    ELSE Then(applyPenalty([b EXCEPT !.pendingUno = None], accused, 4, sh),
              LAMBDA t : Return([t EXCEPT !.unoDeclared[accused] = FALSE],
                                TRUE))))

\* Mutant of sayUno: a declaration is accepted after the round has ended.
sayUno_AfterEnd(s, playerIndex) ==
    Then(ensurePlayerIndex(s, playerIndex), LAMBDA a :
    IF Len(a.hands[playerIndex]) > 2
    THEN Throw(a, "UNO can only be declared with two or fewer cards")
    ELSE LET t == [a EXCEPT !.unoDeclared[playerIndex] = TRUE]
         IN  IF t.pendingUno # None /\ Get(t.pendingUno).player = playerIndex
             THEN [t EXCEPT !.pendingUno = None]
             ELSE t)

sayUno(s, playerIndex) ==
    Then(ensurePlayerIndex(s, playerIndex), LAMBDA a :
    IF a.ended THEN Throw(a, "Round has finished")
    ELSE IF Len(a.hands[playerIndex]) > 2
         THEN Throw(a, "UNO can only be declared with two or fewer cards")
         ELSE LET t == [a EXCEPT !.unoDeclared[playerIndex] = TRUE]
              IN  IF t.pendingUno # None /\ Get(t.pendingUno).player = playerIndex
                  THEN [t EXCEPT !.pendingUno = None]
                  ELSE t)

winner(s) == s.winnerIndex

onEnd(s, handler) ==
    IF s.ended /\ s.winnerIndex # None
    THEN invoke(s, handler, Get(s.winnerIndex))
    ELSE [s EXCEPT !.listeners = Append(@, handler)]

\* Returns the color, or throws when neither an enforced color nor a colored
\* top card gives one.
currentColor(s) ==
    IF s.enforcedColor # NoColor THEN Return(s, s.enforcedColor)
    ELSE IF HasColor(topCard(s)) THEN Return(s, topCard(s).color)
    ELSE Throw(s, "Current color is undefined")

\* A memento lists the hands from player 0 on.
ToList(hs, count) == [i \in 1..count |-> hs[i - 1]]

\* Mutant of toMemento: the direction is always exported as clockwise.
toMemento_AlwaysClockwise(s) ==
    Then(currentColor(s), LAMBDA c :
        Return(s, [players |-> s.players,
                   hands |-> ToList(s.hands, playerCount(s)),
                   drawPile |-> s.drawPileCards,
                   discardPile |-> s.discardPileCards,
                   currentColor |-> Get(c.ret),
                   currentDirection |-> "clockwise",
                   dealer |-> s.dealer,
                   playerInTurn |-> IF s.ended THEN None
                                    ELSE s.currentPlayerIndex]))

\* Returns the memento, or throws what currentColor throws.
toMemento(s) ==
    Then(currentColor(s), LAMBDA c :
        Return(s, [players |-> s.players,
                   hands |-> ToList(s.hands, playerCount(s)),
                   drawPile |-> s.drawPileCards,
                   discardPile |-> s.discardPileCards,
                   currentColor |-> Get(c.ret),
                   currentDirection |-> IF s.direction = 1 THEN "clockwise"
                                        ELSE "counterclockwise",
                   dealer |-> s.dealer,
                   playerInTurn |-> IF s.ended THEN None
                                    ELSE s.currentPlayerIndex]))

-----------------------------------------------------------------------------
(* Construction: createRoundFromMemento and the RoundImpl constructor.     *)

validatePlayersFails(names) == Len(names) < 2 \/ Len(names) > 10

\* deck.fromMemento accepts exactly the well-formed card records.
IsCard(card) ==
    /\ "type" \in DOMAIN card
    /\ \/ /\ card.type = "NUMBERED"
          /\ DOMAIN card = {"type", "color", "number"}
          /\ card.color \in colors
          /\ card.number \in 0..9
       \/ /\ card.type \in {"SKIP", "REVERSE", "DRAW"}
          /\ DOMAIN card = {"type", "color"}
          /\ card.color \in colors
       \/ /\ card.type \in {"WILD", "WILD DRAW"}
          /\ DOMAIN card = {"type"}

cloneCardsWithValidationFails(cards) ==
    \E i \in 1..Len(cards) : ~IsCard(cards[i])

toDirection(label) == IF label = "clockwise" THEN 1 ELSE 0 - 1

Winners(hs) == {i \in DOMAIN hs : Len(hs[i]) = 0}

\* new RoundImpl(state): the fields after construction, or err.
RoundImpl(state) ==
    LET s == [players |-> state.players, dealer |-> state.dealer,
              hands |-> state.hands, drawPileCards |-> state.drawPile,
              discardPileCards |-> state.discardPile,
              direction |-> state.direction,
              currentPlayerIndex |-> state.currentPlayer,
              enforcedColor |-> state.enforcedColor, pendingUno |-> None,
              unoDeclared |-> [i \in 0..(Len(state.players) - 1) |-> FALSE],
              ended |-> FALSE, winnerIndex |-> None, cachedScore |-> None,
              listeners |-> <<>>, notified |-> <<>>,
              err |-> NoError, ret |-> None, refilled |-> FALSE]
        winners == Winners(s.hands)
    IN  IF Len(s.discardPileCards) = 0
        THEN Throw(s, "Discard pile cannot be empty")
        ELSE IF Cardinality(winners) > 1
        THEN Throw(s, "Round cannot be initialised with multiple winners")
        ELSE IF Cardinality(winners) = 1
        THEN [s EXCEPT !.ended = TRUE,
                       !.winnerIndex = Some(CHOOSE w \in winners : TRUE),
                       !.currentPlayerIndex = None]
        ELSE IF s.currentPlayerIndex = None
        THEN Throw(s, "playerInTurn must be defined for an unfinished round")
        ELSE s

\* A memento holds hands as a list; the round indexes players from 0.
FromList(list) == [i \in 0..(Len(list) - 1) |-> list[i + 1]]

Failed(message) == [err |-> message]

createRoundFromMemento(memento) ==
    IF validatePlayersFails(memento.players)
    THEN Failed("A round requires two to ten players")
    ELSE IF ensureIndexFails(memento.dealer, Len(memento.players))
    THEN Failed("dealer is out of bounds")
    ELSE IF memento.currentDirection \notin {"clockwise", "counterclockwise"}
    THEN Failed("Unknown direction")
    ELSE IF memento.currentColor \notin colors
    THEN Failed("Invalid color")
    ELSE IF Len(memento.hands) # Len(memento.players)
    THEN Failed("Hands count must equal players count")
    ELSE IF \/ \E i \in 1..Len(memento.hands) :
                  cloneCardsWithValidationFails(memento.hands[i])
            \/ cloneCardsWithValidationFails(memento.drawPile)
            \/ cloneCardsWithValidationFails(memento.discardPile)
    THEN Failed("Invalid card")
    ELSE IF Len(memento.discardPile) = 0
    THEN Failed("Discard pile cannot be empty")
    ELSE
    LET hs == FromList(memento.hands)
        winners == Winners(hs)
        finished == Cardinality(winners) = 1
        top == memento.discardPile[Len(memento.discardPile)]
    IN  IF Cardinality(winners) > 1
        THEN Failed("Round memento cannot contain multiple winners")
        ELSE IF ~finished /\ memento.playerInTurn = None
        THEN Failed("playerInTurn is required for unfinished rounds")
        ELSE IF ~finished
                /\ ensureIndexFails(Get(memento.playerInTurn),
                                    Len(memento.players))
        THEN Failed("playerInTurn is out of bounds")
        ELSE IF ~IsWild(top) /\ (~HasColor(top) \/ top.color # memento.currentColor)
        THEN Failed("currentColor must match the color of the top discard")
        ELSE RoundImpl(
                [players |-> memento.players, dealer |-> memento.dealer,
                 hands |-> hs, drawPile |-> memento.drawPile,
                 discardPile |-> memento.discardPile,
                 currentPlayer |-> IF finished THEN None
                                   ELSE memento.playerInTurn,
                 direction |-> toDirection(memento.currentDirection),
                 enforcedColor |-> IF IsWild(top) THEN memento.currentColor
                                   ELSE NoColor])

-----------------------------------------------------------------------------
(* The rounds the model starts from: every memento of a small family that  *)
(* createRoundFromMemento accepts.                                         *)

R1 == Numbered("RED", 1)
R2 == Numbered("RED", 2)
B1 == Numbered("BLUE", 1)
B2 == Numbered("BLUE", 2)
RS == Colored("SKIP", "RED")
RR == Colored("REVERSE", "RED")
RD == Colored("DRAW", "RED")

Names == <<"A", "B", "C", "D">>

\* The hand of the player in turn, and the hands of the players after it.
HandChoices ==
    {<<>>, <<Wild>>, <<RS, Wild>>, <<R1, WildDraw>>, <<RD>>, <<RR, RS, R2>>}
NextHandChoices == {<<>>, <<B1>>, <<RD, B1>>}
LastHandChoices == {<<B2, R2, R1>>}

\* <<draw pile, discard pile>>
PileChoices ==
    {<< <<>>, <<R1>> >>,
     << <<>>, <<B2, R2, R1>> >>,
     << <<B2>>, <<R1, B1, Wild>> >>,
     << <<B1, R2, B2, RS, R1>>, <<R2>> >>}

HandLists(n) ==
    IF n = 2
    THEN {<<a, b>> : a \in HandChoices, b \in NextHandChoices}
    ELSE {<<a, b, c>> : a \in HandChoices, b \in NextHandChoices,
                        c \in LastHandChoices}

Mementos ==
    UNION {
        {[players |-> SubSeq(Names, 1, n), hands |-> hs,
          drawPile |-> piles[1], discardPile |-> piles[2],
          currentColor |-> color, currentDirection |-> label,
          dealer |-> 0, playerInTurn |-> turn] :
            hs \in HandLists(n), piles \in PileChoices,
            color \in {"RED", "BLUE"},
            label \in {"clockwise", "counterclockwise"},
            turn \in {None, Some(0)}} :
        n \in {2, 3}}

-----------------------------------------------------------------------------
(* The state machine.                                                      *)

\* The fields take the values of the record an operation produced.
Becomes(s) ==
    /\ players' = s.players
    /\ dealer' = s.dealer
    /\ hands' = s.hands
    /\ drawPileCards' = s.drawPileCards
    /\ discardPileCards' = s.discardPileCards
    /\ direction' = s.direction
    /\ currentPlayerIndex' = s.currentPlayerIndex
    /\ enforcedColor' = s.enforcedColor
    /\ pendingUno' = s.pendingUno
    /\ unoDeclared' = s.unoDeclared
    /\ ended' = s.ended
    /\ winnerIndex' = s.winnerIndex
    /\ cachedScore' = s.cachedScore
    /\ listeners' = s.listeners
    /\ notified' = s.notified

\* What a call looked like from outside: the operation, the player in turn
\* when it was made, its arguments, the exception or the value returned.
Call(op, args, s) ==
    [op |-> op, player |-> currentPlayerIndex, args |-> args, err |-> s.err,
     ret |-> s.ret, refilled |-> s.refilled]

Init ==
    /\ \E memento \in Mementos :
          \E s \in {createRoundFromMemento(memento)} :
              /\ s.err = NoError
              /\ players = s.players
              /\ dealer = s.dealer
              /\ hands = s.hands
              /\ drawPileCards = s.drawPileCards
              /\ discardPileCards = s.discardPileCards
              /\ direction = s.direction
              /\ currentPlayerIndex = s.currentPlayerIndex
              /\ enforcedColor = s.enforcedColor
              /\ pendingUno = s.pendingUno
              /\ unoDeclared = s.unoDeclared
              /\ ended = s.ended
              /\ winnerIndex = s.winnerIndex
              /\ cachedScore = s.cachedScore
              /\ listeners = s.listeners
              /\ notified = s.notified
    /\ last = [op |-> "new", player |-> None, args |-> <<>>, err |-> NoError,
               ret |-> None, refilled |-> FALSE]
    /\ steps = 0
    /\ valid = TRUE
    /\ setup = None

\* The card indices tried: every index of the hand in turn and one past it.
CardIndices ==
    IF currentPlayerIndex = None THEN {0}
    ELSE 0..Len(hands[Get(currentPlayerIndex)])

ColorArgs == {NoColor, "BLUE", "PURPLE"}

PlayerArgs == 0..Len(players)

Play ==
    /\ steps < MaxSteps
    /\ \E cardIndex \in CardIndices, color \in ColorArgs :
          \E s \in {play(This, cardIndex, color, sh) : sh \in Shufflers} :
              /\ Becomes(s)
              /\ last' = Call("play", <<cardIndex, color>>, s)
              /\ valid' = (valid /\ s.err = NoError)
    /\ steps' = steps + 1
    /\ UNCHANGED setup

Draw ==
    /\ steps < MaxSteps
    /\ \E s \in {draw(This, sh) : sh \in Shufflers} :
          /\ Becomes(s)
          /\ last' = Call("draw", <<>>, s)
          /\ valid' = (valid /\ s.err = NoError)
    /\ steps' = steps + 1
    /\ UNCHANGED setup

CatchUnoFailure ==
    /\ steps < MaxSteps
    /\ \E accused \in PlayerArgs :
          \E s \in {catchUnoFailure(This, accuser, accused, sh) :
                        accuser \in {0, Len(players)}, sh \in Shufflers} :
              /\ Becomes(s)
              /\ last' = Call("catchUnoFailure", <<accused>>, s)
              /\ valid' = (valid /\ s.err = NoError)
    /\ steps' = steps + 1
    /\ UNCHANGED setup

SayUno ==
    /\ steps < MaxSteps
    /\ \E playerIndex \in PlayerArgs :
          \E s \in {sayUno(This, playerIndex)} :
              /\ Becomes(s)
              /\ last' = Call("sayUno", <<playerIndex>>, s)
              /\ valid' = (valid /\ s.err = NoError)
    /\ steps' = steps + 1
    /\ UNCHANGED setup

\* The handlers a caller registers.
Handlers == {"h1", "h2"}

OnEnd ==
    /\ steps < MaxSteps
    /\ \E handler \in Handlers :
          \E s \in {onEnd(This, handler)} :
              /\ Becomes(s)
              /\ last' = Call("onEnd", <<handler>>, s)
              /\ valid' = (valid /\ s.err = NoError)
    /\ steps' = steps + 1
    /\ UNCHANGED setup

Next == Play \/ Draw \/ CatchUnoFailure \/ SayUno \/ OnEnd

Spec == Init /\ [][Next]_vars

-----------------------------------------------------------------------------
(* Properties.                                                             *)

Players == 0..(Len(players) - 1)

Failing == last.err # NoError
Succeeded == last.err = NoError

\* The part of the round a caller can observe or that later calls depend on.
roundState ==
    <<hands, drawPileCards, discardPileCards, currentPlayerIndex, direction,
      enforcedColor, unoDeclared, pendingUno>>

\* C1: a play or draw call that fails leaves hands, draw pile, discard pile,
\* player in turn, direction, enforced color, UNO declarations and the
\* accusation window exactly as they were before the call.
C1_FailedCallChangesNothing ==
    [][(last'.op \in {"play", "draw"} /\ last'.err # NoError)
        => UNCHANGED roundState]_vars

\* C2: a hand of size 0 exists only in an ended round and belongs to the
\* winner, and an empty hand is never changed by a later call.
C2_EmptyHandOnlyForWinner ==
    /\ [](\A p \in Players :
            Len(hands[p]) = 0 => (hasEnded(This) /\ winner(This) = Some(p)))
    /\ [][\A p \in Players :
            Len(hands[p]) = 0 => hands'[p] = hands[p]]_vars

\* C3: if the top of the discard pile is WILD or WILD DRAW the enforced
\* color is defined; for any other top card the enforced color is cleared.
C3_EnforcedColorMatchesTop ==
    IF IsWild(topCard(This))
    THEN enforcedColor # NoColor
    ELSE enforcedColor = NoColor

\* C4: the discard pile is non-empty; at most one hand is empty; the round
\* has ended iff no player is in turn; while active the player in turn is an
\* index in [0, playerCount); when ended the winner is defined and the
\* winner's hand is empty.
C4_StructuralInvariant ==
    /\ Len(discardPileCards) > 0
    /\ Cardinality({p \in Players : Len(hands[p]) = 0}) <= 1
    /\ hasEnded(This) <=> (currentPlayerIndex = None)
    /\ ~hasEnded(This) => Get(currentPlayerIndex) \in Players
    /\ hasEnded(This) =>
          /\ winner(This) # None
          /\ Get(winner(This)) \in Players
          /\ Len(hands[Get(winner(This))]) = 0

\* C4 witness: a play has just emptied a hand and ended the round.
C4_Witness ==
    /\ last.op = "play"
    /\ Succeeded
    /\ ended
    /\ currentPlayerIndex = None
    /\ Len(hands[Get(winnerIndex)]) = 0

Score == score(This)

\* C5: once the round has ended it stays ended; winner and score keep their
\* values; hands, piles and direction stay unchanged; every play, draw and
\* sayUno call fails and every catchUnoFailure call with valid indices
\* returns false.
C5_EndedIsAbsorbing ==
    [][hasEnded(This) =>
        /\ ended'
        /\ winnerIndex' = winnerIndex
        /\ Score' = Score
        /\ UNCHANGED <<hands, drawPileCards, discardPileCards, direction>>
        /\ last'.op \in {"play", "draw", "sayUno"} => last'.err # NoError
        /\ (last'.op = "catchUnoFailure" /\ last'.err = NoError)
              => last'.ret = Some(FALSE)]_vars

\* C5 witness: a call made after a play ended the round (the score cache is
\* filled only by a play that ends the round).
C5_Witness ==
    /\ ended
    /\ cachedScore # None
    /\ last.op \in {"sayUno", "catchUnoFailure"}

-----------------------------------------------------------------------------
(* Properties of play and draw, stated over one step: unprimed values are  *)
(* those before the call, primed ones those after it.                      *)

Actor == Get(currentPlayerIndex)

PlayedOk == last'.op = "play" /\ last'.err = NoError
DrewOk == last'.op = "draw" /\ last'.err = NoError

\* The seat `stepCount` places from seat c in direction d.
Seat(c, stepCount, d) == (c + stepCount * d) % Len(players)

StepsOf(card) ==
    IF \/ card.type \in {"SKIP", "DRAW", "WILD DRAW"}
       \/ (card.type = "REVERSE" /\ Len(players) = 2)
    THEN 2
    ELSE 1

\* C6: after a successful play that does not empty the hand, the player in
\* turn is (c + steps * d) mod n for the direction d after the card's effect,
\* with steps 1 for NUMBERED, WILD and REVERSE among more than 2 players and
\* 2 for SKIP, DRAW, WILD DRAW and REVERSE between 2 players; the direction
\* flips exactly when the card is REVERSE.
C6_TurnAdvance ==
    [][PlayedOk =>
        LET card == Get(last'.ret)
        IN  /\ direction' = IF card.type = "REVERSE" THEN 0 - direction
                                                     ELSE direction
            /\ Len(hands'[Actor]) > 0 =>
                  currentPlayerIndex' =
                      Some(Seat(Actor, StepsOf(card), direction'))]_vars

\* C6 witness: between two players a REVERSE has been played and the turn is
\* again with the player who played it.
C6_Witness ==
    /\ last.op = "play"
    /\ Succeeded
    /\ Get(last.ret).type = "REVERSE"
    /\ Len(players) = 2
    /\ currentPlayerIndex = last.player

PenaltyOf(card) == IF card.type = "DRAW" THEN 2 ELSE 4

\* The card a play call names, when the index is inside the hand in turn.
NamedCard == hands[Actor][last'.args[1] + 1]

NamesCard ==
    /\ last'.op = "play"
    /\ ~ended
    /\ currentPlayerIndex # None
    /\ last'.args[1] \in 0..(Len(hands[Actor]) - 1)

\* The hands after a successful DRAW / WILD DRAW play: the victim, next in
\* the direction of play, gets the penalty from the front of the draw pile
\* (continued by the reshuffled discard pile when it runs out), the actor
\* loses the card played, nobody else's hand changes.
PenaltyDealt(card) ==
    LET k == PenaltyOf(card)
        victim == Seat(Actor, 1, direction)
    IN  /\ \E sh \in Shufflers :
              LET source == IF Len(drawPileCards) >= k THEN drawPileCards
                            ELSE drawPileCards \o shuffler(sh, discardPileCards)
              IN  /\ hands'[victim] = hands[victim] \o SubSeq(source, 1, k)
                  /\ drawPileCards' = SubSeq(source, k + 1, Len(source))
        /\ Len(hands'[victim]) = Len(hands[victim]) + k
        /\ hands'[Actor] = RemoveAt(hands[Actor], last'.args[1])
        /\ \A q \in Players \ {Actor, victim} : hands'[q] = hands[q]

OnlyActorsHandChanges ==
    /\ hands'[Actor] = RemoveAt(hands[Actor], last'.args[1])
    /\ \A q \in Players \ {Actor} : hands'[q] = hands[q]

\* The outcome of playing a WILD DRAW that is legal on the top card: without
\* a color the call fails; with a color it succeeds when draw pile and
\* discard pile together hold the penalty, and otherwise fails with the
\* exhaustion error.
WildDrawNeedsColor ==
    (/\ NamesCard
     /\ NamedCard.type = "WILD DRAW"
     /\ canPlay(NamedCard, topCard(This), enforcedColor)) =>
        /\ last'.args[2] = NoColor => last'.err # NoError
        /\ last'.args[2] \in colors =>
              IF Len(drawPileCards) + Len(discardPileCards) >= 4
              THEN last'.err = NoError
              ELSE last'.err = "Cannot replenish draw pile"

\* C7 as stated: a WILD DRAW played without a color fails and with a color
\* succeeds; a successful DRAW / WILD DRAW play gives the next player 2 / 4
\* cards from the front of the draw pile, advances the turn by 2 and changes
\* no third hand; the other variants change only the actor's hand.
C7_PenaltyPlays_AsStated ==
    [][/\ WildDrawNeedsColor
       /\ PlayedOk =>
            LET card == Get(last'.ret)
            IN  IF card.type \in {"DRAW", "WILD DRAW"}
                THEN /\ PenaltyDealt(card)
                     /\ currentPlayerIndex' = Some(Seat(Actor, 2, direction))
                ELSE OnlyActorsHandChanges]_vars

\* C7, amended: as stated, except that the turn advances by 2 only if the
\* play did not empty the actor's hand; if it did, the round has ended and
\* nobody is in turn.
C7_PenaltyPlays ==
    [][/\ WildDrawNeedsColor
       /\ PlayedOk =>
            LET card == Get(last'.ret)
            IN  IF card.type \in {"DRAW", "WILD DRAW"}
                THEN /\ PenaltyDealt(card)
                     /\ currentPlayerIndex' =
                            IF Len(hands'[Actor]) = 0 THEN None
                            ELSE Some(Seat(Actor, 2, direction))
                ELSE OnlyActorsHandChanges]_vars

\* C7 witness: among three players a WILD DRAW was played with a color, the
\* round goes on and the turn is two seats on.
C7_Witness ==
    /\ last.op = "play"
    /\ Succeeded
    /\ Get(last.ret).type = "WILD DRAW"
    /\ Len(players) = 3
    /\ ~ended
    /\ currentPlayerIndex = Some(Seat(Get(last.player), 2, direction))

\* The draw pile a draw call takes from: the pile itself, or the reshuffled
\* discard pile below the top when the pile is empty.
DrawSources ==
    IF drawPileCards # <<>> THEN {drawPileCards}
    ELSE {shuffler(sh, SubSeq(discardPileCards, 1, Len(discardPileCards) - 1)) :
              sh \in Shufflers}

\* C8: a successful draw moves the front card of the draw pile to the end of
\* the hand in turn and changes no other hand, nor the discard top, the
\* enforced color or the direction; the turn stays if the card drawn is
\* playable on the top card and enforced color, else moves one step on.
C8_Draw ==
    [][DrewOk =>
        LET card == Get(last'.ret)
        IN  /\ \E source \in DrawSources :
                  /\ card = Head(source)
                  /\ drawPileCards' = Tail(source)
            /\ hands'[Actor] = Append(hands[Actor], card)
            /\ \A q \in Players \ {Actor} : hands'[q] = hands[q]
            /\ topCard(This)' = topCard(This)
            /\ UNCHANGED <<enforcedColor, direction>>
            /\ currentPlayerIndex' =
                  IF canPlay(card, topCard(This), enforcedColor)
                  THEN currentPlayerIndex
                  ELSE Some(Seat(Actor, 1, direction))]_vars

\* C8 witness: a card was drawn that is playable, and the turn is still with
\* the player who drew it.
C8_Witness ==
    /\ last.op = "draw"
    /\ Succeeded
    /\ canPlay(Get(last.ret), topCard(This), enforcedColor)
    /\ currentPlayerIndex = last.player

Occurrences(cards, card) == Cardinality({i \in 1..Len(cards) : cards[i] = card})

SameCards(a, b) ==
    /\ Len(a) = Len(b)
    /\ \A i \in 1..Len(a) : Occurrences(a, a[i]) = Occurrences(b, a[i])

\* C9: in an active round with an empty draw pile, a draw succeeds when the
\* discard pile holds at least 2 cards: the discard pile becomes its former
\* top card alone, the draw pile (with the card drawn) is a rearrangement of
\* the former non-top discard cards, top card and enforced color are
\* unchanged; the draw fails when the discard pile holds only its top card.
C9_DrawPileExhaustion ==
    [][(last'.op = "draw" /\ ~ended /\ drawPileCards = <<>>) =>
        IF Len(discardPileCards) >= 2
        THEN /\ last'.err = NoError
             /\ discardPileCards' = <<topCard(This)>>
             /\ SameCards(<<Get(last'.ret)>> \o drawPileCards',
                          SubSeq(discardPileCards, 1,
                                 Len(discardPileCards) - 1))
             /\ enforcedColor' = enforcedColor
        ELSE /\ last'.err # NoError
             /\ UNCHANGED <<hands, drawPileCards, discardPileCards>>]_vars

\* C9 witness: a draw has refilled the draw pile from the discard pile and
\* cards are left in it.
C9_Witness ==
    /\ last.op = "draw"
    /\ Succeeded
    /\ last.refilled
    /\ Len(discardPileCards) = 1
    /\ Len(drawPileCards) > 0

-----------------------------------------------------------------------------
(* The accusation window, observed through what catchUnoFailure would      *)
(* return if it were called now.                                           *)

\* The shuffler does not decide the outcome: it only orders a refill.
CatchOutcome(accused) == catchUnoFailure(This, 0, accused, "identity")

CatchReturns(accused, value) ==
    LET outcome == CatchOutcome(accused)
    IN  outcome.err = NoError /\ outcome.ret = Some(value)

CatchFailsExhausted(accused) ==
    CatchOutcome(accused).err = "Cannot replenish draw pile"

\* The last call was a play that left its player with exactly one card and
\* no declaration.
ReducedToOneCard(p) ==
    /\ last.op = "play"
    /\ Succeeded
    /\ last.player = Some(p)
    /\ Len(hands[p]) = 1
    /\ ~unoDeclared[p]

\* The last call was a successful play or draw of a player other than p.
OtherPlayerActed(p) ==
    /\ last.op \in {"play", "draw"}
    /\ Succeeded
    /\ last.player # Some(p)

\* The four conditions under which catchUnoFailure does not return false.
Catchable(p) ==
    /\ pendingUno = Some([player |-> p, windowOpen |-> TRUE])
    /\ ~unoDeclared[p]
    /\ Len(hands[p]) = 1

\* A window on p survives the calls that are neither a play or draw nor a
\* sayUno or catchUnoFailure aimed at p.
WindowSurvives(p) ==
    (/\ \/ last'.op = "sayUno" /\ last'.args[1] # p
        \/ last'.op = "catchUnoFailure" /\ last'.args[1] # p
     /\ Catchable(p))
        => Catchable(p)'

\* C10 as stated: after a play that leaves p with exactly one card and no
\* declaration, catchUnoFailure on p returns true; after another player's
\* play or draw it returns false, and keeps returning false until p is again
\* reduced to exactly one card without declaring.
C10_WindowLifetime_AsStated ==
    /\ [](\A p \in Players :
            /\ CatchReturns(p, FALSE) <=> ~Catchable(p)
            /\ ReducedToOneCard(p) => CatchReturns(p, TRUE)
            /\ OtherPlayerActed(p) => CatchReturns(p, FALSE))
    /\ [][\A p \in Players :
            /\ WindowSurvives(p)
            /\ (~Catchable(p) /\ Catchable(p)') => ReducedToOneCard(p)']_vars

\* C10, amended: after such a play catchUnoFailure on p returns true if draw
\* pile and discard pile below its top hold the 4 penalty cards, and fails
\* with the exhaustion error if they do not; after another player's play or
\* draw it returns false, and keeps returning false until a play or draw of
\* p itself leaves p with exactly one card and no declaration.
C10_WindowLifetime ==
    /\ [](\A p \in Players :
            /\ CatchReturns(p, FALSE) <=> ~Catchable(p)
            /\ ReducedToOneCard(p) =>
                  IF Len(drawPileCards) + Len(discardPileCards) - 1 >= 4
                  THEN CatchReturns(p, TRUE)
                  ELSE CatchFailsExhausted(p)
            /\ OtherPlayerActed(p) => CatchReturns(p, FALSE))
    /\ [][\A p \in Players :
            /\ WindowSurvives(p)
            /\ (~Catchable(p) /\ Catchable(p)')
                  => /\ last'.op \in {"play", "draw"}
                     /\ last'.err = NoError
                     /\ last'.player = Some(p)]_vars

\* C10 witness: p was reduced to one card without declaring, another player
\* then played or drew, and the window on p is still recorded but closed.
C10_Witness ==
    \E p \in Players :
        /\ OtherPlayerActed(p)
        /\ pendingUno = Some([player |-> p, windowOpen |-> FALSE])
        /\ Len(hands[p]) = 1
        /\ ~unoDeclared[p]

-----------------------------------------------------------------------------
(* catchUnoFailure and sayUno.                                             *)

CaughtOk == last'.op = "catchUnoFailure" /\ last'.err = NoError

\* C11: catchUnoFailure with in-bounds indices returns true only if a window
\* is open, targets the accused, the accused has not declared and holds
\* exactly one card; when it returns true the accused's hand grows by exactly
\* 4 cards and the window is cleared, so that a repeated catch returns false;
\* when it returns false nothing changes: hands, piles, turn, direction,
\* enforced color, declarations and window.
C11_CatchFrame ==
    /\ [](\A p \in Players : ~Catchable(p) => CatchReturns(p, FALSE))
    /\ [][\A accused \in Players :
            (CaughtOk /\ last'.args[1] = accused) =>
                IF last'.ret = Some(TRUE)
                THEN /\ Catchable(accused)
                     /\ Len(hands'[accused]) = Len(hands[accused]) + 4
                     /\ \A q \in Players \ {accused} : hands'[q] = hands[q]
                     /\ pendingUno' = None
                     /\ ~Catchable(accused)'
                ELSE /\ last'.ret = Some(FALSE)
                     /\ UNCHANGED roundState]_vars

\* C11 witness: a catch has returned true, the accused now holds 5 cards and
\* no window is recorded.
C11_Witness ==
    /\ last.op = "catchUnoFailure"
    /\ Succeeded
    /\ last.ret = Some(TRUE)
    /\ Len(hands[last.args[1]]) = 5
    /\ pendingUno = None

\* A window, open or expired, is recorded on p.
WindowOn(p) == pendingUno # None /\ Get(pendingUno).player = p

\* C12: sayUno fails if the round has ended or the named player holds more
\* than 2 cards; otherwise it marks the declaration and changes no hand, no
\* pile, neither turn nor direction, and closes a window on that player:
\* while the declaration stands (it stands as long as the hand is untouched)
\* a catchUnoFailure on the player returns false and changes no hand; and a
\* player who declared holding two cards opens no window by the play that
\* leaves one card.
C12_SayUno ==
    [][\A p \in Players :
        /\ (last'.op = "sayUno" /\ last'.args[1] = p) =>
              IF ended \/ Len(hands[p]) > 2
              THEN last'.err # NoError
              ELSE /\ last'.err = NoError
                   /\ unoDeclared'[p]
                   /\ UNCHANGED <<hands, drawPileCards, discardPileCards,
                                  currentPlayerIndex, direction>>
                   /\ ~WindowOn(p)'
                   /\ ~Catchable(p)'
        /\ (unoDeclared[p] /\ hands'[p] = hands[p]) => unoDeclared'[p]
        /\ (CaughtOk /\ last'.args[1] = p /\ unoDeclared[p]) =>
              /\ last'.ret = Some(FALSE)
              /\ hands' = hands
        /\ (/\ PlayedOk
            /\ currentPlayerIndex = Some(p)
            /\ unoDeclared[p]
            /\ Len(hands[p]) = 2) =>
              /\ Len(hands'[p]) = 1
              /\ unoDeclared'[p]
              /\ ~WindowOn(p)'
              /\ ~Catchable(p)']_vars

\* C12 witness: a player who had declared has played down to one card, and
\* no window is recorded.
C12_Witness ==
    \E p \in Players :
        /\ last.op = "play"
        /\ Succeeded
        /\ last.player = Some(p)
        /\ Len(hands[p]) = 1
        /\ unoDeclared[p]
        /\ pendingUno = None

\* C13: after every call, successful or failing, the pending UNO window, if
\* present (open or expired), refers to a player who holds exactly one card.
C13_WindowRefersToOneCard ==
    pendingUno # None => Len(hands[Get(pendingUno).player]) = 1

-----------------------------------------------------------------------------
(* Winner and score.                                                       *)

\* The point table of the rules.
PointValue(card) ==
    IF card.type = "NUMBERED" THEN card.number
    ELSE IF IsWild(card) THEN 50
    ELSE 20

HandValue(hand) ==
    LET RECURSIVE Upto(_)
        Upto(k) == IF k = 0 THEN 0 ELSE PointValue(hand[k]) + Upto(k - 1)
    IN  Upto(Len(hand))

\* The value of all hands but w's.
OthersValue(hs, w) ==
    LET RECURSIVE Over(_)
        Over(S) == IF S = {} THEN 0
                   ELSE LET q == CHOOSE x \in S : TRUE
                        IN  HandValue(hs[q]) + Over(S \ {q})
    IN  Over(Players \ {w})

\* C14: score() and winner() return undefined while the round is active; a
\* play that empties its player's hand makes that player the winner and the
\* score the sum of the point values (NUMBERED: the number; SKIP, REVERSE,
\* DRAW: 20; WILD, WILD DRAW: 50) of all other hands as they are after the
\* call, the cards a winning DRAW or WILD DRAW dealt included; the score
\* never changes afterwards.
C14_ScoreAndWinner ==
    /\ [](IF hasEnded(This)
          THEN Score = Some(OthersValue(hands, Get(winner(This))))
          ELSE Score = None /\ winner(This) = None)
    /\ [][(PlayedOk /\ Len(hands'[Actor]) = 0) =>
              /\ ended'
              /\ winnerIndex' = Some(Actor)
              /\ Score' = Some(OthersValue(hands', Actor))]_vars
    /\ [][hasEnded(This) => Score' = Score]_vars

\* C14 witness: a DRAW emptied its player's hand, and the score counts the
\* two cards it dealt to the next player.
C14_Witness ==
    /\ last.op = "play"
    /\ Succeeded
    /\ ended
    /\ Get(last.ret).type = "DRAW"
    /\ \E q \in Players :
          /\ Len(hands[q]) >= 3
          /\ Score = Some(OthersValue(hands, Get(last.player)))
          /\ Get(Score) >= HandValue(hands[q])
          /\ HandValue(hands[q]) > 0

-----------------------------------------------------------------------------
(* End-of-round notification.                                              *)

\* What a handler called for winner w sees in the state after the call.
Notice(handler, w) ==
    [handler |-> handler, winner |-> w, hasEnded |-> TRUE, score |-> Score']

\* C15: a handler registered while the round is active is not invoked
\* before the round ends; the play that empties a hand invokes every
\* registered handler exactly once, in registration order, with the actual
\* winner, hasEnded() true and score() defined; a handler registered after
\* the round ended is invoked at once, exactly once, with the stored
\* winner; no other call invokes a handler.
C15_EndNotification ==
    /\ [](~ended => notified = <<>>)
    /\ [][(~ended /\ ended') =>
              /\ PlayedOk
              /\ Score' # None
              /\ notified' = [i \in 1..Len(listeners) |->
                                 Notice(listeners[i], Actor)]
              /\ winnerIndex' = Some(Actor)]_vars
    /\ [][(~ended /\ last'.op = "onEnd") =>
              /\ listeners' = Append(listeners, last'.args[1])
              /\ notified' = notified]_vars
    /\ [][(ended /\ last'.op = "onEnd") =>
              /\ Score' # None
              /\ notified' = Append(notified,
                                    Notice(last'.args[1], Get(winnerIndex)))]_vars
    /\ [][(ended /\ last'.op # "onEnd") => notified' = notified]_vars
    /\ [][(~ended' /\ last'.op # "onEnd") => listeners' = listeners]_vars

\* C15 witness: two handlers were registered, h2 before h1, and the play
\* that ended the round has called them in that order.
C15_Witness ==
    /\ last.op = "play"
    /\ ended
    /\ listeners = <<"h2", "h1">>
    /\ Len(notified) = 2
    /\ notified[1].handler = "h2"
    /\ notified[2].handler = "h1"
    /\ notified[2].winner = Get(winnerIndex)

-----------------------------------------------------------------------------
(* Mementos.                                                               *)

\* createRoundFromMemento(round.toMemento())
Restored ==
    LET exported == toMemento(This)
    IN  IF exported.err # NoError THEN Failed(exported.err)
        ELSE createRoundFromMemento(Get(exported.ret))

\* C16: for a round reached by calls none of which failed, toMemento()
\* succeeds and createRoundFromMemento of it succeeds and gives a round with
\* the same hands, draw pile, discard pile, player in turn, current color
\* (the enforced color when the top is a wild variant), direction, dealer
\* and ended status.
C16_RoundTrip ==
    valid =>
        /\ toMemento(This).err = NoError
        /\ Restored.err = NoError
        /\ Restored.players = players
        /\ Restored.hands = hands
        /\ Restored.drawPileCards = drawPileCards
        /\ Restored.discardPileCards = discardPileCards
        /\ Restored.currentPlayerIndex = currentPlayerIndex
        /\ currentColor(Restored).ret = currentColor(This).ret
        /\ IsWild(topCard(This)) => Restored.enforcedColor = enforcedColor
        /\ Restored.direction = direction
        /\ Restored.dealer = dealer
        /\ hasEnded(Restored) = hasEnded(This)

\* C16 witness: a wild card was played with a color in a round that runs
\* counterclockwise, and the restored round enforces that color.
C16_Witness ==
    /\ valid
    /\ last.op = "play"
    /\ IsWild(topCard(This))
    /\ direction = 0 - 1
    /\ ~ended
    /\ Restored.err = NoError
    /\ Restored.enforcedColor = "BLUE"
    /\ Restored.direction = 0 - 1

-----------------------------------------------------------------------------
(* Import of a memento as a step of its own: the state before it holds no   *)
(* round, only the memento handed to createRoundFromMemento.               *)

\* No round has been constructed.
NoRound ==
    /\ players = <<>>
    /\ dealer = 0
    /\ hands = <<>>
    /\ drawPileCards = <<>>
    /\ discardPileCards = <<>>
    /\ direction = 1
    /\ currentPlayerIndex = None
    /\ enforcedColor = NoColor
    /\ pendingUno = None
    /\ unoDeclared = <<>>
    /\ ended = FALSE
    /\ winnerIndex = None
    /\ cachedScore = None
    /\ listeners = <<>>
    /\ notified = <<>>

roundVars ==
    <<players, dealer, hands, drawPileCards, discardPileCards, direction,
      currentPlayerIndex, enforcedColor, pendingUno, unoDeclared, ended,
      winnerIndex, cachedScore, listeners, notified>>

\* The mementos handed in: those of the family above, with the player in
\* turn absent, in bounds, negative or one past the last player.
ImportMementos ==
    UNION {
        {[players |-> SubSeq(Names, 1, n), hands |-> hs,
          drawPile |-> piles[1], discardPile |-> piles[2],
          currentColor |-> color, currentDirection |-> label,
          dealer |-> 0, playerInTurn |-> turn] :
            hs \in HandLists(n), piles \in PileChoices,
            color \in {"RED", "BLUE"},
            label \in {"clockwise", "counterclockwise"},
            turn \in {None, Some(0 - 1), Some(0), Some(n - 1), Some(n)}} :
        n \in {2, 3}}

ImportInit ==
    /\ NoRound
    /\ \E memento \in ImportMementos :
          setup = [pc |-> "import", input |-> memento, err |-> NoError]
    /\ last = [op |-> "none", player |-> None, args |-> <<>>, err |-> NoError,
               ret |-> None, refilled |-> FALSE]
    /\ steps = 0
    /\ valid = TRUE

CreateRoundFromMemento ==
    /\ setup.pc = "import"
    /\ \E s \in {createRoundFromMemento(setup.input)} :
          /\ IF s.err # NoError
             THEN /\ UNCHANGED roundVars
                  /\ setup' = [setup EXCEPT !.pc = "failed", !.err = s.err]
             ELSE /\ Becomes(s)
                  /\ setup' = [setup EXCEPT !.pc = "done"]
          /\ last' = [op |-> "new", player |-> None, args |-> <<>>,
                      err |-> s.err, ret |-> None, refilled |-> FALSE]
          /\ valid' = (s.err = NoError)
    /\ steps' = steps + 1

SpecMemento == ImportInit /\ [][CreateRoundFromMemento]_vars

\* The number of empty hands of a memento.
EmptyHands(memento) ==
    Cardinality({i \in 1..Len(memento.hands) : memento.hands[i] = <<>>})

\* C17: createRoundFromMemento fails when no hand is empty and playerInTurn
\* is undefined or outside [0, playerCount), and fails when exactly one hand
\* is empty and playerInTurn is defined.
C17_ImportRequiresTurn ==
    setup.pc \in {"done", "failed"} =>
        LET memento == setup.input
            turn == memento.playerInTurn
        IN  /\ (/\ EmptyHands(memento) = 0
                /\ \/ turn = None
                   \/ Get(turn) \notin 0..(Len(memento.players) - 1))
                  => setup.pc = "failed"
            /\ (EmptyHands(memento) = 1 /\ turn # None)
                  => setup.pc = "failed"

-----------------------------------------------------------------------------
(* createRound and buildInitialState.                                      *)

\* createInitialDeck of ./deck: the full deck, per color one 0, two of each
\* of 1..9 and two each of SKIP, REVERSE and DRAW, then four WILD and four
\* WILD DRAW.
ColorCards(c) ==
    <<Numbered(c, 0)>>
    \o [i \in 1..18 |-> Numbered(c, (i + 1) \div 2)]
    \o <<Colored("SKIP", c), Colored("SKIP", c),
         Colored("REVERSE", c), Colored("REVERSE", c),
         Colored("DRAW", c), Colored("DRAW", c)>>

createInitialDeck ==
    ColorCards("RED") \o ColorCards("YELLOW") \o ColorCards("GREEN")
    \o ColorCards("BLUE")
    \o <<Wild, Wild, Wild, Wild, WildDraw, WildDraw, WildDraw, WildDraw>>

\* config.cardsPerPlayer ?? 7
DefaultCardsPerPlayer == 7

\* Lines 614-621: cardsPerPlayer rounds over the players, one card each,
\* from the front of the deck.  Returns hands and the cards left, or err.
dealHands(count, cardsPerPlayer, cards) ==
    IF count * cardsPerPlayer > Len(cards)
    THEN [err |-> "Deck exhausted while dealing"]
    ELSE [err |-> NoError,
          hands |-> [p \in 0..(count - 1) |->
                       [i \in 1..cardsPerPlayer |->
                           cards[(i - 1) * count + p + 1]]],
          cards |-> SubSeq(cards, count * cardsPerPlayer + 1, Len(cards))]

\* Returns hands and the cards left, or err.
drawIntoHand(hs, victim, source, count) ==
    IF Len(source) < count
    THEN [err |-> "Deck exhausted while resolving draw effect"]
    ELSE [err |-> NoError,
          hands |-> [hs EXCEPT ![victim] = @ \o SubSeq(source, 1, count)],
          cards |-> SubSeq(source, count + 1, Len(source))]

\* Mutant of resolveOpening: an opening REVERSE leaves the direction alone.
resolveOpening_ReverseKeepsDirection(firstDiscard, dealerIndex, count, hs, cards) ==
    LET first == mod(dealerIndex + 1, count)
        plain(current, dir) ==
            [err |-> NoError, hands |-> hs, drawPile |-> cards,
             discardPile |-> <<firstDiscard>>, currentPlayer |-> Some(current),
             direction |-> dir, enforcedColor |-> NoColor]
    IN  CASE firstDiscard.type = "SKIP" ->
                plain(mod(dealerIndex + 2, count), 1)
          [] firstDiscard.type = "REVERSE" ->
                IF count = 2 THEN plain(dealerIndex, 1)
                ELSE plain(mod(dealerIndex - 1, count), 1)
          [] firstDiscard.type = "DRAW" ->
                LET drawn == drawIntoHand(hs, first, cards, 2)
                IN  IF drawn.err # NoError THEN drawn
                    ELSE [err |-> NoError, hands |-> drawn.hands,
                          drawPile |-> drawn.cards,
                          discardPile |-> <<firstDiscard>>,
                          currentPlayer |-> Some(mod(dealerIndex + 2, count)),
                          direction |-> 1, enforcedColor |-> NoColor]
          [] OTHER -> plain(first, 1)

\* Lines 629-664: the opening card's effect, relative to the dealer.
resolveOpening(firstDiscard, dealerIndex, count, hs, cards) ==
    LET first == mod(dealerIndex + 1, count)
        plain(current, dir) ==
            [err |-> NoError, hands |-> hs, drawPile |-> cards,
             discardPile |-> <<firstDiscard>>, currentPlayer |-> Some(current),
             direction |-> dir, enforcedColor |-> NoColor]
    IN  CASE firstDiscard.type = "SKIP" ->
                plain(mod(dealerIndex + 2, count), 1)
          [] firstDiscard.type = "REVERSE" ->
                IF count = 2 THEN plain(dealerIndex, 0 - 1)
                ELSE plain(mod(dealerIndex - 1, count), 0 - 1)
          [] firstDiscard.type = "DRAW" ->
                LET drawn == drawIntoHand(hs, first, cards, 2)
                IN  IF drawn.err # NoError THEN drawn
                    ELSE [err |-> NoError, hands |-> drawn.hands,
                          drawPile |-> drawn.cards,
                          discardPile |-> <<firstDiscard>>,
                          currentPlayer |-> Some(mod(dealerIndex + 2, count)),
                          direction |-> 1, enforcedColor |-> NoColor]
          [] OTHER -> plain(first, 1)

\* Lines 49-54: the checks of createRound; the error, or NoError.
configError(config) ==
    IF Len(config.players) < 2 THEN "A round requires at least two players"
    ELSE IF Len(config.players) > 10 THEN "A round supports at most ten players"
    ELSE IF config.cardsPerPlayer # None /\ Get(config.cardsPerPlayer) <= 0
    THEN "cardsPerPlayer must be positive"
    ELSE IF ensureIndexFails(config.dealer, Len(config.players))
    THEN "dealer is out of bounds"
    ELSE NoError

cardsPerPlayerOf(config) ==
    IF config.cardsPerPlayer = None THEN DefaultCardsPerPlayer
    ELSE Get(config.cardsPerPlayer)

\* Bounds of the configurations tried.
MaxPlayers == 3
MaxCardsPerPlayer == 6

Configs ==
    UNION {
        {[players |-> SubSeq(Names, 1, n), dealer |-> d, cardsPerPlayer |-> c,
          shuffler |-> sh] :
            d \in (0 - 1)..n,
            c \in {None} \cup {Some(k) : k \in 0..MaxCardsPerPlayer},
            sh \in Shufflers} :
        n \in 1..MaxPlayers}

\* The position inside createRound: pc, and the locals of buildInitialState.
Building(config, pc, cards, hs, message) ==
    [pc |-> pc, config |-> config, cards |-> cards, hands |-> hs,
     err |-> message]

CreateInit ==
    /\ NoRound
    /\ \E config \in Configs :
          setup = Building(config, "createRound", <<>>, <<>>, NoError)
    /\ last = [op |-> "none", player |-> None, args |-> <<>>, err |-> NoError,
               ret |-> None, refilled |-> FALSE]
    /\ steps = 0
    /\ valid = TRUE

\* Lines 48-56: createRound checks its configuration and enters
\* buildInitialState.
CreateRoundEnter ==
    /\ setup.pc = "createRound"
    /\ setup' = IF configError(setup.config) # NoError
                THEN [setup EXCEPT !.pc = "failed",
                                   !.err = configError(setup.config)]
                ELSE [setup EXCEPT !.pc = "shuffle"]
    /\ UNCHANGED <<roundVars, last, steps, valid>>

\* Lines 605-612: a fresh deck is shuffled and emptied into `cards`.
ShuffleDeck ==
    /\ setup.pc = "shuffle"
    /\ setup' = [setup EXCEPT
                    !.pc = "deal",
                    !.cards = shuffler(setup.config.shuffler,
                                       createInitialDeck),
                    !.hands = <<>>]
    /\ UNCHANGED <<roundVars, last, steps, valid>>

\* Lines 614-621.
DealHands ==
    /\ setup.pc = "deal"
    /\ LET dealt == dealHands(Len(setup.config.players),
                              cardsPerPlayerOf(setup.config), setup.cards)
       IN  setup' = IF dealt.err # NoError
                    THEN [setup EXCEPT !.pc = "failed", !.err = dealt.err]
                    ELSE [setup EXCEPT !.pc = "flip", !.cards = dealt.cards,
                                       !.hands = dealt.hands]
    /\ UNCHANGED <<roundVars, last, steps, valid>>

\* Lines 623-665 and 58-68: the opening discard is flipped; a wild variant
\* sends the loop back to its start with this deal dropped, any other card
\* is resolved and the round is constructed.
FlipDiscard ==
    /\ setup.pc = "flip"
    /\ IF setup.cards = <<>>
       THEN /\ setup' = [setup EXCEPT
                            !.pc = "failed",
                            !.err = "Deck exhausted before drawing discard card"]
            /\ UNCHANGED <<roundVars, last, steps, valid>>
       ELSE LET firstDiscard == Head(setup.cards) IN
            IF IsWild(firstDiscard)
            THEN /\ setup' = [setup EXCEPT !.pc = "shuffle", !.cards = <<>>,
                                           !.hands = <<>>]
                 /\ UNCHANGED <<roundVars, last, steps, valid>>
            ELSE LET built == resolveOpening(firstDiscard, setup.config.dealer,
                                            Len(setup.config.players),
                                            setup.hands, Tail(setup.cards))
                 IN  IF built.err # NoError
                     THEN /\ setup' = [setup EXCEPT !.pc = "failed",
                                                    !.err = built.err]
                          /\ UNCHANGED <<roundVars, last, steps, valid>>
                     ELSE \E s \in {RoundImpl(
                                  [players |-> setup.config.players,
                                   dealer |-> setup.config.dealer,
                                   hands |-> built.hands,
                                   drawPile |-> built.drawPile,
                                   discardPile |-> built.discardPile,
                                   currentPlayer |-> built.currentPlayer,
                                   direction |-> built.direction,
                                   enforcedColor |-> built.enforcedColor])} :
                          /\ IF s.err # NoError
                             THEN /\ UNCHANGED roundVars
                                  /\ setup' = [setup EXCEPT !.pc = "failed",
                                                            !.err = s.err]
                             ELSE /\ Becomes(s)
                                  /\ setup' = [setup EXCEPT !.pc = "done",
                                                            !.cards = <<>>,
                                                            !.hands = <<>>]
                          /\ last' = [op |-> "new", player |-> None,
                                      args |-> <<>>, err |-> s.err,
                                      ret |-> None, refilled |-> FALSE]
                          /\ UNCHANGED <<steps, valid>>

CreateNext == CreateRoundEnter \/ ShuffleDeck \/ DealHands \/ FlipDiscard

SpecCreate == CreateInit /\ [][CreateNext]_vars

\* createRound runs to completion once called: no step of it waits.
SpecCreateFair == SpecCreate /\ WF_vars(CreateNext)

\* The deck as the configured shuffler leaves it.
ShuffledDeck == shuffler(setup.config.shuffler, createInitialDeck)

\* C18: when createRound returns, the discard pile holds exactly one card,
\* not a wild variant; the undealt cards form the draw pile; every hand holds
\* cardsPerPlayer cards, except that for an opening DRAW the player at
\* dealer+1 holds cardsPerPlayer+2; NUMBERED starts with dealer+1 clockwise,
\* SKIP and DRAW with dealer+2 clockwise, REVERSE counterclockwise with
\* dealer-1 among more than 2 players and with the dealer between 2 (all
\* indices mod playerCount).
C18_InitialState ==
    setup.pc = "done" =>
        LET n == Len(players)
            k == IF setup.config.cardsPerPlayer = None THEN 7
                 ELSE Get(setup.config.cardsPerPlayer)
            opening == discardPileCards[1]
            penalty == IF opening.type = "DRAW" THEN 2 ELSE 0
            place(offset) == Some((dealer + offset + n) % n)
        IN  /\ Len(discardPileCards) = 1
            /\ ~IsWild(opening)
            /\ opening = ShuffledDeck[n * k + 1]
            /\ drawPileCards =
                  SubSeq(ShuffledDeck, n * k + 2 + penalty, Len(ShuffledDeck))
            /\ \A p \in Players :
                  Len(hands[p]) = IF penalty = 2 /\ Some(p) = place(1)
                                  THEN k + 2 ELSE k
            /\ opening.type = "NUMBERED" =>
                  direction = 1 /\ currentPlayerIndex = place(1)
            /\ opening.type \in {"SKIP", "DRAW"} =>
                  direction = 1 /\ currentPlayerIndex = place(2)
            /\ opening.type = "REVERSE" =>
                  /\ direction = 0 - 1
                  /\ currentPlayerIndex = IF n > 2 THEN place(0 - 1)
                                           ELSE place(0)

\* C18 witness: three players, dealer 0, an opening REVERSE: the round runs
\* counterclockwise and starts with player 2.
C18_Witness ==
    /\ setup.pc = "done"
    /\ Len(players) = 3
    /\ dealer = 0
    /\ discardPileCards[1].type = "REVERSE"
    /\ direction = 0 - 1
    /\ currentPlayerIndex = Some(2)

\* C20: the initial deal is a bounded loop: for every shuffler, also one
\* under which the card flipped is a wild variant on every attempt,
\* createRound terminates, returning a round or reporting a failure.
C20_CreateRoundTerminates == <>(setup.pc \in {"done", "failed"})

-----------------------------------------------------------------------------
(* The pile views: drawPile() and discardPile() wrap the round's own arrays, *)
(* so a call on a view acts on the round's pile.                           *)

\* Array.shift: the pile without its front card, and the card (or nothing).
shift(pile) ==
    [pile |-> IF pile = <<>> THEN pile ELSE Tail(pile),
     ret |-> IF pile = <<>> THEN None ELSE Some(Head(pile))]

ViewCall(op, args, ret) ==
    [op |-> op, player |-> currentPlayerIndex, args |-> args, err |-> NoError,
     ret |-> ret, refilled |-> FALSE]

\* drawPile().deal()
DrawPileDeal ==
    /\ steps < MaxSteps
    /\ drawPileCards' = shift(drawPileCards).pile
    /\ last' = ViewCall("drawPile.deal", <<>>, shift(drawPileCards).ret)
    /\ steps' = steps + 1
    /\ UNCHANGED <<players, dealer, hands, discardPileCards, direction,
                   currentPlayerIndex, enforcedColor, pendingUno, unoDeclared,
                   ended, winnerIndex, cachedScore, listeners, notified,
                   valid, setup>>

\* drawPile().shuffle(shuffler)
DrawPileShuffle ==
    /\ steps < MaxSteps
    /\ \E sh \in Shufflers :
          /\ drawPileCards' = shuffler(sh, drawPileCards)
          /\ last' = ViewCall("drawPile.shuffle", <<sh>>, None)
    /\ steps' = steps + 1
    /\ UNCHANGED <<players, dealer, hands, discardPileCards, direction,
                   currentPlayerIndex, enforcedColor, pendingUno, unoDeclared,
                   ended, winnerIndex, cachedScore, listeners, notified,
                   valid, setup>>

\* discardPile().deal()
DiscardPileDeal ==
    /\ steps < MaxSteps
    /\ discardPileCards' = shift(discardPileCards).pile
    /\ last' = ViewCall("discardPile.deal", <<>>, shift(discardPileCards).ret)
    /\ steps' = steps + 1
    /\ UNCHANGED <<players, dealer, hands, drawPileCards, direction,
                   currentPlayerIndex, enforcedColor, pendingUno, unoDeclared,
                   ended, winnerIndex, cachedScore, listeners, notified,
                   valid, setup>>

\* discardPile().shuffle(shuffler)
DiscardPileShuffle ==
    /\ steps < MaxSteps
    /\ \E sh \in Shufflers :
          /\ discardPileCards' = shuffler(sh, discardPileCards)
          /\ last' = ViewCall("discardPile.shuffle", <<sh>>, None)
    /\ steps' = steps + 1
    /\ UNCHANGED <<players, dealer, hands, drawPileCards, direction,
                   currentPlayerIndex, enforcedColor, pendingUno, unoDeclared,
                   ended, winnerIndex, cachedScore, listeners, notified,
                   valid, setup>>

ViewNext ==
    DrawPileDeal \/ DrawPileShuffle \/ DiscardPileDeal \/ DiscardPileShuffle

\* A caller that only uses the views of a round.
SpecViews == Init /\ [][ViewNext]_vars

\* C19: no sequence of deal() or shuffle() calls on the objects returned by
\* drawPile() and discardPile() changes the round's discard pile, its top
\* card or the round's draw pile; the discard pile stays non-empty.
C19_ViewsLeavePilesAlone ==
    /\ [](Len(discardPileCards) > 0)
    /\ [][UNCHANGED <<discardPileCards, drawPileCards>>]_vars

-----------------------------------------------------------------------------
(* A restored round against the round it was exported from.                *)

\* What a caller sees of a call: the exception or the value returned.
Outcome(s) == <<s.err, s.ret>>

\* The next call, whichever it is, has the same outcome on rounds a and b.
SameNextCall(a, b) ==
    /\ \A cardIndex \in CardIndices, color \in ColorArgs, sh \in Shufflers :
          Outcome(play(a, cardIndex, color, sh))
              = Outcome(play(b, cardIndex, color, sh))
    /\ \A sh \in Shufflers : Outcome(draw(a, sh)) = Outcome(draw(b, sh))
    /\ \A playerIndex \in PlayerArgs :
          Outcome(sayUno(a, playerIndex)) = Outcome(sayUno(b, playerIndex))
    /\ \A accuser \in {0, Len(players)}, accused \in PlayerArgs,
          sh \in Shufflers :
          Outcome(catchUnoFailure(a, accuser, accused, sh))
              = Outcome(catchUnoFailure(b, accuser, accused, sh))

\* C21: a round restored from round.toMemento() behaves as the original
\* under the calls that follow: each call returns the same result or fails
\* the same way in both, catchUnoFailure on a window open at the time of the
\* snapshot included, and also the call after a play made in both (a play to
\* one card after a declaration made before the snapshot).
C21_RestoredBehavesTheSame ==
    valid =>
        /\ Restored.err = NoError
        /\ SameNextCall(This, Restored)
        /\ \A cardIndex \in CardIndices, color \in ColorArgs :
              SameNextCall(play(This, cardIndex, color, "identity"),
                           play(Restored, cardIndex, color, "identity"))

-----------------------------------------------------------------------------
(* Card conservation.                                                      *)

\* The cards held by player p and by the players after p.
RECURSIVE CardsInHands(_)
CardsInHands(p) ==
    IF p \notin DOMAIN hands THEN 0 ELSE Len(hands[p]) + CardsInHands(p + 1)

TotalCards == CardsInHands(0) + Len(drawPileCards) + Len(discardPileCards)

\* The cards of the round: those in the hands and in the two piles.
HeldCards ==
    UNION {{hands[p][i] : i \in 1..Len(hands[p])} : p \in DOMAIN hands}
        \cup {drawPileCards[i] : i \in 1..Len(drawPileCards)}
        \cup {discardPileCards[i] : i \in 1..Len(discardPileCards)}

\* The copies of card a hand or pile gains in a step (negative: loses).
Gain(before, after, card) ==
    IF after = before THEN 0
    ELSE Occurrences(after, card) - Occurrences(before, card)

RECURSIVE GainInHands(_, _)
GainInHands(p, card) ==
    IF p \notin DOMAIN hands THEN 0
    ELSE Gain(hands[p], hands'[p], card) + GainInHands(p + 1, card)

\* The copies of card the round as a whole gains in a step.
NetGain(card) ==
    GainInHands(0, card) + Gain(drawPileCards, drawPileCards', card)
        + Gain(discardPileCards, discardPileCards', card)

\* C22: across play, draw, sayUno and catchUnoFailure calls, successful or
\* failing, refills and penalty draws included, the multiset of the cards in
\* all hands, the draw pile and the discard pile stays the same: a call
\* moves no card, or it keeps the number of cards and, of each card, the
\* number of copies.
C22_CardConservation ==
    [][\/ UNCHANGED <<drawPileCards, discardPileCards, hands>>
       \/ /\ TotalCards' = TotalCards
          /\ \A card \in HeldCards : NetGain(card) = 0]_vars

\* C22 witness: a DRAW was played on an empty draw pile: the discard pile
\* was reshuffled into it and the penalty dealt from it.
C22_Witness ==
    /\ last.op = "play"
    /\ Succeeded
    /\ last.refilled
    /\ Get(last.ret).type = "DRAW"
    /\ Len(drawPileCards) = 1
    /\ Len(discardPileCards) = 1

====
